---- MODULE Spec2Model ----
(***************************************************************************)
(* pngme: a PNG chunk codec (chunk_type.rs, chunk.rs), the chunk container *)
(* (png.rs) and the command line tool that edits a file in place (main.rs).*)
(*                                                                         *)
(* Values.                                                                 *)
(*   u8      a number in 0..255                                            *)
(*   u32     a pair <<hi, lo>> of 16-bit limbs, value hi * 65536 + lo      *)
(*   usize   four 16-bit limbs, most significant first (a 64-bit target)   *)
(*   &[u8], Vec<u8>, &str   a sequence of u8 (a str is its UTF-8 bytes)    *)
(*   Result  a record [kind, val, err], kind "Ok", "Err" or "Panic"        *)
(***************************************************************************)
EXTENDS Integers, Sequences, FiniteSets, TLC

VARIABLES
    tin,      \* SpecType: the input handed to a ChunkType constructor
    tvia,     \* SpecType: "none", "bytes" (TryFrom<[u8; 4]>) or "str" (FromStr)
    tres,     \* SpecType: the constructor's result
    chunk,    \* SpecChunk: the chunk built in memory by Chunk::new
    wire,     \* SpecChunk: the byte slice that is handed to Chunk::try_from
    muts,     \* SpecChunk: what was done to the encoding before decoding it
    cpc,      \* SpecChunk: "new", "encoded" or "decoded"
    decoded,  \* SpecChunk: the result of Chunk::try_from(wire)
    dlen,     \* SpecLen: data.len() of a chunk, a usize
    lfield,   \* SpecLen: the length field as_bytes writes for it
    lpc,      \* SpecLen: "new" or "encoded"
    file,     \* Spec: the content of the file at the path of the command
    pc,       \* Spec: the position of main in the running command
    cmd,      \* Spec: the parsed command line
    orig,     \* Spec: the content of the file when the command started
    buf,      \* Spec: the bytes read_bytes_from_file returned
    png,      \* Spec: the container in memory (its chunk sequence)
    before,   \* Spec: the chunk sequence before the mutation of the command
    obuf,     \* Spec: the bytes png.as_bytes() returned
    out,      \* Spec: the result of the last fallible step
    steps,    \* Spec: the steps of the command that have succeeded, in order
    stdout    \* Spec: what the command printed

typeVars  == <<tin, tvia, tres>>
chunkVars == <<chunk, wire, muts, cpc, decoded>>
lenVars   == <<dlen, lfield, lpc>>
cliVars   == <<file, pc, cmd, orig, buf, png, before, obuf, out, steps, stdout>>
vars      == <<tin, tvia, tres, chunk, wire, muts, cpc, decoded, dlen, lfield, lpc,
               file, pc, cmd, orig, buf, png, before, obuf, out, steps, stdout>>

None == <<"none">>

Ok(v)    == [kind |-> "Ok", val |-> v, err |-> ""]
Err(e)   == [kind |-> "Err", val |-> None, err |-> e]
Panic(e) == [kind |-> "Panic", val |-> None, err |-> e]

Pow2(k) == 2 ^ k
Bit(n, k) == (n \div Pow2(k)) % 2
FlipBit(b, k) == IF Bit(b, k) = 1 THEN b - Pow2(k) ELSE b + Pow2(k)

(***************************************************************************)
(* chunk_type.rs                                                           *)
(***************************************************************************)
is_ascii_uppercase(b) == b >= 65 /\ b <= 90
is_ascii_lowercase(b) == b >= 97 /\ b <= 122
is_ascii_alphabetic(b) == is_ascii_uppercase(b) \/ is_ascii_lowercase(b)

\* ChunkType is the tuple struct ChunkType([u8; 4]): the value is its 4 bytes.
bytes(ct) == <<ct[1], ct[2], ct[3], ct[4]>>

is_critical(ct) == is_ascii_uppercase(ct[1])
is_public(ct) == is_ascii_uppercase(ct[2])
is_reserved_bit_valid(ct) == is_ascii_uppercase(ct[3])
is_safe_to_copy(ct) == is_ascii_lowercase(ct[4])
is_valid_AlphabeticOnly(ct) == \A i \in 1..4 : is_ascii_alphabetic(ct[i])

is_valid(ct) ==
    (\A i \in 1..4 : is_ascii_alphabetic(ct[i])) /\ is_reserved_bit_valid(ct)

ErrInvalidBytes == "Invalid bytes passed, need to be all ascii alphabetic!"
ErrTryFromSlice == "could not convert slice to array"

ChunkType_try_from_AnyByte(value) == Ok(value)

\* impl TryFrom<[u8; 4]> for ChunkType
ChunkType_try_from(value) ==
    IF ~(\A i \in 1..4 : is_ascii_alphabetic(value[i]))
    THEN Err(ErrInvalidBytes)
    ELSE Ok(value)

\* impl FromStr for ChunkType: s.as_bytes().try_into()? fails unless the str
\* is exactly 4 bytes long.
from_str(s) ==
    IF Len(s) # 4 THEN Err(ErrTryFromSlice)
    ELSE ChunkType_try_from(<<s[1], s[2], s[3], s[4]>>)

\* std::str::from_utf8: is the byte sequence well-formed UTF-8?
IsCont(b) == b >= 128 /\ b <= 191
RECURSIVE utf8_valid(_)
utf8_valid(s) ==
    IF Len(s) = 0 THEN TRUE
    ELSE LET b == s[1]
             n == Len(s)
             rest(k) == SubSeq(s, k + 1, n)
         IN  IF b <= 127 THEN utf8_valid(rest(1))
             ELSE IF b >= 194 /\ b <= 223
             THEN n >= 2 /\ IsCont(s[2]) /\ utf8_valid(rest(2))
             ELSE IF b >= 224 /\ b <= 239
             THEN /\ n >= 3
                  /\ IsCont(s[2]) /\ IsCont(s[3])
                  /\ (b = 224 => s[2] >= 160)
                  /\ (b = 237 => s[2] <= 159)
                  /\ utf8_valid(rest(3))
             ELSE IF b >= 240 /\ b <= 244
             THEN /\ n >= 4
                  /\ IsCont(s[2]) /\ IsCont(s[3]) /\ IsCont(s[4])
                  /\ (b = 240 => s[2] >= 144)
                  /\ (b = 244 => s[2] <= 143)
                  /\ utf8_valid(rest(4))
             ELSE FALSE

\* impl Display for ChunkType: from_utf8(&self.0).expect(..), written out.
to_string(ct) ==
    IF utf8_valid(bytes(ct)) THEN Ok(bytes(ct))
    ELSE Panic("ASCII should be valid utf")

(***************************************************************************)
(* Integer conversions used by chunk.rs                                    *)
(***************************************************************************)
Limb == 65536

\* x as usize for a length x the model holds as a number (below 2^31)
usize_of(n) == <<0, 0, (n \div Limb) % Limb, n % Limb>>

\* x as u32 for a usize x: the low 32 bits
as_u32(u) == <<u[3], u[4]>>

\* x as usize for a u32 x
as_usize(x) == <<0, 0, x[1], x[2]>>

\* u32::to_be_bytes
to_be_bytes(x) == <<x[1] \div 256, x[1] % 256, x[2] \div 256, x[2] % 256>>

\* u32::from_be_bytes
from_be_bytes(b) == <<b[1] * 256 + b[2], b[3] * 256 + b[4]>>

\* start..start + n is a range of a slice of length len: start + n <= len,
\* for start and len below 2^16 and any usize n
RangeFits(start, n, len) ==
    n[1] = 0 /\ n[2] = 0 /\ n[3] = 0 /\ start + n[4] <= len

(***************************************************************************)
(* crc::Crc::<u32>::new(&crc::CRC_32_ISO_HDLC): polynomial 0x04C11DB7,     *)
(* reflected in and out (so 0xEDB88320 shifting right), initial value and  *)
(* final xor 0xFFFFFFFF. The register is a u32.                            *)
(***************************************************************************)
PolyReflected == <<60856, 33568>>   \* 0xEDB8, 0x8320

\* a xor b on n-bit values
RECURSIVE XorBits(_, _, _)
XorBits(a, b, n) ==
    IF n = 0 THEN 0
    ELSE ((Bit(a, n - 1) + Bit(b, n - 1)) % 2) * Pow2(n - 1) + XorBits(a, b, n - 1)

Xor16(a, b) == XorBits(a, b, 16)

CrcInit == <<65535, 65535>>

\* one bit of input: shift right, xor the polynomial in if a 1 fell out
CrcShift(r) ==
    LET s == <<r[1] \div 2, (r[2] \div 2) + (r[1] % 2) * 32768>>
    IN  IF r[2] % 2 = 1
        THEN <<Xor16(s[1], PolyReflected[1]), Xor16(s[2], PolyReflected[2])>>
        ELSE s

\* (the intermediate register is bound by a quantifier so that it is a value
\* before the next step starts: the evaluation stays flat on long inputs)
RECURSIVE CrcShifts(_, _)
CrcShifts(r, n) ==
    IF n = 0 THEN r
    ELSE CHOOSE y \in {CrcShifts(x, n - 1) : x \in {CrcShift(r)}} : TRUE

CrcByte(r, b) == CrcShifts(<<r[1], Xor16(r[2], b)>>, 8)

\* digest.update(bytes)
RECURSIVE digest_update(_, _)
digest_update(r, bs) ==
    IF Len(bs) = 0 THEN r
    ELSE CHOOSE y \in {digest_update(x, Tail(bs)) : x \in {CrcByte(r, bs[1])}} : TRUE

\* digest.finalize(): the register xor 0xFFFFFFFF
digest_finalize(r) == <<65535 - r[1], 65535 - r[2]>>

(***************************************************************************)
(* chunk.rs                                                                *)
(***************************************************************************)
Chunk_new(chunk_type, data) == [chunk_type |-> chunk_type, data |-> data]

\* data.len()
data_len(c) == usize_of(Len(c.data))

length(c) == as_u32(data_len(c))

crc_DataOnly(c) == digest_finalize(digest_update(CrcInit, c.data))

crc(c) ==
    digest_finalize(digest_update(digest_update(CrcInit, bytes(c.chunk_type)), c.data))

as_bytes(c) ==
    to_be_bytes(length(c)) \o bytes(c.chunk_type) \o c.data \o to_be_bytes(crc(c))

ErrShortHeader == "Not enough bytes for parsing length and chunk type for chunk!"
ErrInvalidType == "Invalid chunk type"
ErrCrc == "CRC not matching"
PanicSlice == "range end index out of range for slice"

Chunk_try_from_NoGate(bs) ==
    IF Len(bs) < 8 THEN Err(ErrShortHeader)
    ELSE LET data_length == as_usize(from_be_bytes(SubSeq(bs, 1, 4)))
             ct == ChunkType_try_from(SubSeq(bs, 5, 8))
         IN  IF ct.kind # "Ok" THEN ct
             ELSE IF ~RangeFits(8, data_length, Len(bs)) THEN Panic(PanicSlice)
             ELSE IF ~RangeFits(12, data_length, Len(bs)) THEN Panic(PanicSlice)
             ELSE LET n == data_length[4]
                      c == Chunk_new(ct.val, SubSeq(bs, 9, 8 + n))
                      stored == from_be_bytes(SubSeq(bs, 9 + n, 12 + n))
                  IN  IF crc(c) # stored THEN Err(ErrCrc) ELSE Ok(c)

\* impl TryFrom<&[u8]> for Chunk
Chunk_try_from(bs) ==
    IF Len(bs) < 8 THEN Err(ErrShortHeader)
    ELSE LET data_length == as_usize(from_be_bytes(SubSeq(bs, 1, 4)))
             ct == ChunkType_try_from(SubSeq(bs, 5, 8))
         IN  IF ct.kind # "Ok" THEN ct
             ELSE IF ~is_valid(ct.val) THEN Err(ErrInvalidType)
             \* bytes[8..8 + data_length]
             ELSE IF ~RangeFits(8, data_length, Len(bs)) THEN Panic(PanicSlice)
             \* bytes[8 + data_length..8 + data_length + 4]
             ELSE IF ~RangeFits(12, data_length, Len(bs)) THEN Panic(PanicSlice)
             ELSE LET n == data_length[4]
                      c == Chunk_new(ct.val, SubSeq(bs, 9, 8 + n))
                      stored == from_be_bytes(SubSeq(bs, 9 + n, 12 + n))
                  IN  IF crc(c) # stored THEN Err(ErrCrc) ELSE Ok(c)

\* Chunk::data_as_string
data_as_string(c) ==
    IF utf8_valid(c.data) THEN Ok(c.data)
    ELSE Err("Failed to read chunk data as string")

\* CRC check values: crate::chunk::tests::test_new_chunk (2882656334 =
\* 0xABD1D84E) and the CRC-32/ISO-HDLC check value of "123456789" (0xCBF43926)
TestMessage ==
    <<84,104,105,115,32,105,115,32,119,104,101,114,101,32,121,111,117,114,32,
      115,101,99,114,101,116,32,109,101,115,115,97,103,101,32,119,105,108,108,
      32,98,101,33>>
CrcSelfTest ==
    /\ crc(Chunk_new(<<82, 117, 83, 116>>, TestMessage)) = <<43985, 55374>>
    /\ digest_finalize(digest_update(CrcInit, <<49,50,51,52,53,54,55,56,57>>))
          = <<52212, 14630>>

(***************************************************************************)
(* Inputs of the bounded checks                                            *)
(***************************************************************************)
MaxStrLen == 5      \* longest type string handed to from_str
MaxData == 2        \* longest chunk payload

\* bytes around every edge of the two alphabetic ranges, and "RuSt"/"Rust"
TypeBytes == {49, 64, 65, 90, 91, 96, 97, 122, 123, 82, 117, 83, 115, 116}
\* the bytes of the strings: R u S s t 1 and the two bytes of U+00E9
StrBytes == {82, 117, 83, 115, 116, 49, 195, 169}

SeqsUpTo(S, n) == UNION {[1..k -> S] : k \in 0..n}

TypeInputs == [1..4 -> TypeBytes] \cup SeqsUpTo(StrBytes, MaxStrLen)

NoChunkState ==
    /\ chunk = None /\ wire = <<>> /\ muts = <<>> /\ cpc = "off" /\ decoded = None
NoLenState == dlen = None /\ lfield = None /\ lpc = "off"
NoCliState ==
    /\ file = <<>> /\ pc = "off" /\ cmd = None /\ orig = <<>> /\ buf = <<>>
    /\ png = <<>> /\ before = <<>> /\ obuf = <<>> /\ out = None
    /\ steps = <<>> /\ stdout = <<>>
NoTypeState == tin = <<>> /\ tvia = "none" /\ tres = None

(***************************************************************************)
(* SpecType: the two constructors of ChunkType applied to an input         *)
(***************************************************************************)
TypeInit ==
    /\ tin \in TypeInputs
    /\ tvia = "none"
    /\ tres = None
    /\ NoChunkState /\ NoLenState /\ NoCliState

\* ChunkType::try_from(value) for an array value: [u8; 4]
TryFromBytes ==
    /\ tvia = "none"
    /\ Len(tin) = 4
    /\ tvia' = "bytes"
    /\ tres' = ChunkType_try_from(tin)
    /\ UNCHANGED <<tin, chunkVars, lenVars, cliVars>>

\* ChunkType::from_str(s) for a string s: &str
FromStr ==
    /\ tvia = "none"
    /\ utf8_valid(tin)
    /\ tvia' = "str"
    /\ tres' = from_str(tin)
    /\ UNCHANGED <<tin, chunkVars, lenVars, cliVars>>

TypeNext == TryFromBytes \/ FromStr

SpecType == TypeInit /\ [][TypeNext]_vars

Alphabetic == (65..90) \cup (97..122)

\* C7: construction from a 4-byte array succeeds iff all 4 bytes are in 65..90
\* or 97..122; construction from a string succeeds iff the string is exactly 4
\* bytes long and all of them are, and then the value equals the one built
\* from the same 4 bytes, and its bytes() and its text are the input.
C7_Construction ==
    /\ tvia = "bytes" =>
          /\ tres.kind \in {"Ok", "Err"}
          /\ tres.kind = "Ok" <=> \A i \in 1..4 : tin[i] \in Alphabetic
          /\ tres.kind = "Ok" => bytes(tres.val) = tin
    /\ tvia = "str" =>
          /\ tres.kind \in {"Ok", "Err"}
          /\ tres.kind = "Ok" <=>
                (Len(tin) = 4 /\ \A i \in 1..4 : tin[i] \in Alphabetic)
          /\ tres.kind = "Ok" =>
                /\ tres = ChunkType_try_from(<<tin[1], tin[2], tin[3], tin[4]>>)
                /\ bytes(tres.val) = tin
                /\ to_string(tres.val) = Ok(tin)

\* "RuSt" was built from a string
C7_Witness ==
    /\ tvia = "str"
    /\ tin = <<82, 117, 83, 116>>
    /\ tres.kind = "Ok"
    /\ to_string(tres.val) = Ok(tin)

\* C8: for every constructible type, is_critical iff byte 0 has bit 5 clear,
\* is_public iff byte 1 has, is_reserved_bit_valid iff byte 2 has,
\* is_safe_to_copy iff byte 3 has bit 5 set (each a function of its own byte
\* alone), and is_valid iff is_reserved_bit_valid.
C8_PropertyBits ==
    (tvia # "none" /\ tres.kind = "Ok") =>
        LET ct == tres.val
        IN  /\ is_critical(ct) <=> Bit(ct[1], 5) = 0
            /\ is_public(ct) <=> Bit(ct[2], 5) = 0
            /\ is_reserved_bit_valid(ct) <=> Bit(ct[3], 5) = 0
            /\ is_safe_to_copy(ct) <=> Bit(ct[4], 5) = 1
            /\ is_valid(ct) <=> is_reserved_bit_valid(ct)

\* "Rust" is constructible and not valid
C8_Witness ==
    /\ tvia # "none" /\ tres.kind = "Ok"
    /\ tres.val = <<82, 117, 115, 116>>
    /\ ~is_valid(tres.val)
    /\ is_critical(tres.val) /\ ~is_public(tres.val) /\ is_safe_to_copy(tres.val)

(***************************************************************************)
(* SpecChunk: a chunk is built, encoded, the encoding is damaged or not,   *)
(* and the bytes are decoded                                               *)
(***************************************************************************)
\* "RuSt", "Rust", "aZAz": all constructible, the second not is_valid
ChunkTypeInputs == {<<82, 117, 83, 116>>, <<82, 117, 115, 116>>, <<97, 90, 65, 122>>}
DataBytes == {0, 104, 255}
DataInputs == SeqsUpTo(DataBytes, MaxData)
\* length fields 0, 1, 3, 65536 and 2^32 - 1
LengthFields ==
    {<<0, 0, 0, 0>>, <<0, 0, 0, 1>>, <<0, 0, 0, 3>>, <<0, 1, 0, 0>>,
     <<255, 255, 255, 255>>}
\* "Ru1t", "RuSt" with its top bit set, "RUsT", "ruSt"
RawTypes ==
    {<<82, 117, 49, 116>>, <<210, 117, 83, 116>>, <<82, 85, 115, 84>>,
     <<114, 117, 83, 116>>}
Trailers == {<<0>>, <<0, 0, 0, 0, 82, 117, 83, 116>>}

Mut(op, at, bit) == [op |-> op, at |-> at, bit |-> bit]

ChunkInit ==
    /\ \E t \in ChunkTypeInputs, d \in DataInputs :
          /\ ChunkType_try_from(t).kind = "Ok"
          /\ chunk = Chunk_new(ChunkType_try_from(t).val, d)
    /\ wire = <<>>
    /\ muts = <<>>
    /\ cpc = "new"
    /\ decoded = None
    /\ NoTypeState /\ NoLenState /\ NoCliState

\* chunk.as_bytes()
Encode ==
    /\ cpc = "new"
    /\ wire' = as_bytes(chunk)
    /\ cpc' = "encoded"
    /\ UNCHANGED <<chunk, muts, decoded, typeVars, lenVars, cliVars>>

\* one bit of the encoding is flipped
Flip ==
    /\ cpc = "encoded" /\ muts = <<>>
    /\ \E i \in 1..Len(wire), k \in 0..7 :
          /\ wire' = [wire EXCEPT ![i] = FlipBit(@, k)]
          /\ muts' = <<Mut("flip", i, k)>>
    /\ UNCHANGED <<chunk, cpc, decoded, typeVars, lenVars, cliVars>>

\* the length field is overwritten
SetLength ==
    /\ cpc = "encoded" /\ muts = <<>>
    /\ \E f \in LengthFields :
          /\ f # SubSeq(wire, 1, 4)
          /\ wire' = f \o SubSeq(wire, 5, Len(wire))
          /\ muts' = <<Mut("length", 1, 0)>>
    /\ UNCHANGED <<chunk, cpc, decoded, typeVars, lenVars, cliVars>>

\* the type bytes are overwritten
SetType ==
    /\ cpc = "encoded" /\ muts = <<>>
    /\ \E t \in RawTypes :
          /\ t # SubSeq(wire, 5, 8)
          /\ wire' = SubSeq(wire, 1, 4) \o t \o SubSeq(wire, 9, Len(wire))
          /\ muts' = <<Mut("type", 5, 0)>>
    /\ UNCHANGED <<chunk, cpc, decoded, typeVars, lenVars, cliVars>>

\* the slice goes on after the chunk, as it does inside a file
Extend ==
    /\ cpc = "encoded" /\ muts = <<>>
    /\ \E e \in Trailers :
          /\ wire' = wire \o e
          /\ muts' = <<Mut("extend", Len(wire) + 1, 0)>>
    /\ UNCHANGED <<chunk, cpc, decoded, typeVars, lenVars, cliVars>>

\* the slice ends early
Truncate ==
    /\ cpc = "encoded"
    /\ \A j \in 1..Len(muts) : muts[j].op \in {"length", "type", "extend"}
    /\ \E n \in 0..(Len(wire) - 1) :
          /\ wire' = SubSeq(wire, 1, n)
          /\ muts' = Append(muts, Mut("truncate", n, 0))
    /\ UNCHANGED <<chunk, cpc, decoded, typeVars, lenVars, cliVars>>

\* Chunk::try_from(wire)
Decode ==
    /\ cpc = "encoded"
    /\ decoded' = Chunk_try_from(wire)
    /\ cpc' = "decoded"
    /\ UNCHANGED <<chunk, wire, muts, typeVars, lenVars, cliVars>>

ChunkNext ==
    Encode \/ Flip \/ SetLength \/ SetType \/ Extend \/ Truncate \/ Decode

SpecChunk == ChunkInit /\ [][ChunkNext]_vars

\* the input is shorter than 8 + L + 4, L the big-endian u32 in its first 4
\* bytes (or too short to hold L and the type)
Short(w) ==
    \/ Len(w) < 8
    \/ LET L == from_be_bytes(SubSeq(w, 1, 4))
       IN  L[1] > 0 \/ Len(w) < 8 + L[2] + 4

TypeBytesOf(w) == SubSeq(w, 5, 8)
AllAlphabetic(t) == \A i \in 1..4 : t[i] \in Alphabetic
ThirdLowercase(t) == t[3] \in 97..122

\* C1: decoding the encoding of a chunk whose type was built from 4
\* alphabetic bytes succeeds and returns the same type bytes, payload and CRC.
C1_RoundTrip ==
    (cpc = "decoded" /\ muts = <<>>) =>
        /\ decoded.kind = "Ok"
        /\ bytes(decoded.val.chunk_type) = bytes(chunk.chunk_type)
        /\ decoded.val.data = chunk.data
        /\ crc(decoded.val) = crc(chunk)

\* C2: on every input shorter than 8 + L + 4 decode returns an error value; it
\* neither panics nor returns a chunk.
C2_TruncationSafety ==
    (cpc = "decoded" /\ Short(wire)) => decoded.kind = "Err"

LenLimbs == {0, 1, 65535}
LenInputs ==
    {u \in [1..4 -> LenLimbs \cup {32767}] :
        u[1] # 65535 /\ \A i \in 2..4 : u[i] # 32767}

LenInit ==
    /\ dlen \in LenInputs
    /\ lfield = None
    /\ lpc = "new"
    /\ NoTypeState /\ NoChunkState /\ NoCliState

\* the first four bytes of as_bytes(): self.length().to_be_bytes(), where
\* length() is self.data.len() as u32
LengthField ==
    /\ lpc = "new"
    /\ lfield' = to_be_bytes(as_u32(dlen))
    /\ lpc' = "encoded"
    /\ UNCHANGED <<dlen, typeVars, chunkVars, cliVars>>

LenNext == LengthField

SpecLen == LenInit /\ [][LenNext]_vars

\* C10: the length field encode writes is the byte length of the payload (and
\* encode refuses a payload longer than the largest u32 instead of writing
\* its length modulo 2^32).
C10_LengthFieldIsLength ==
    lpc = "encoded" => as_usize(from_be_bytes(lfield)) = dlen

(***************************************************************************)
(* png.rs: the container. A Png is its chunk sequence.                     *)
(***************************************************************************)
STANDARD_HEADER == <<137, 80, 78, 71, 13, 10, 26, 10>>

ErrSignature == "bad signature"
ErrNotFound == "chunk not found"

\* decode at the current offset, advance by 8 + length + 4, until the input
\* is exhausted; the first failure is the result
RECURSIVE parse_chunks(_, _)
parse_chunks(rest, acc) ==
    IF Len(rest) = 0 THEN Ok(acc)
    ELSE LET r == Chunk_try_from(rest)
         IN  IF r.kind # "Ok" THEN r
             ELSE parse_chunks(SubSeq(rest, 8 + Len(r.val.data) + 4 + 1, Len(rest)),
                               Append(acc, r.val))

\* impl TryFrom<&[u8]> for Png
Png_try_from(bs) ==
    IF Len(bs) < 8 \/ SubSeq(bs, 1, 8) # STANDARD_HEADER THEN Err(ErrSignature)
    ELSE parse_chunks(SubSeq(bs, 9, Len(bs)), <<>>)

append_chunk(chunks, c) == Append(chunks, c)

TypeText(c) == to_string(c.chunk_type).val

Matches(chunks, t) == {i \in 1..Len(chunks) : TypeText(chunks[i]) = t}
Min(S) == CHOOSE i \in S : \A j \in S : i <= j
Max(S) == CHOOSE i \in S : \A j \in S : i >= j
Without(chunks, i) ==
    [j \in 1..(Len(chunks) - 1) |-> IF j < i THEN chunks[j] ELSE chunks[j + 1]]

remove_chunk_Last(chunks, t) ==
    IF Matches(chunks, t) = {} THEN [res |-> Err(ErrNotFound), chunks |-> chunks]
    ELSE LET i == Max(Matches(chunks, t))
         IN  [res |-> Ok(chunks[i]), chunks |-> Without(chunks, i)]

\* Png::remove_chunk: the result, and the chunk sequence it leaves
remove_chunk(chunks, t) ==
    IF Matches(chunks, t) = {} THEN [res |-> Err(ErrNotFound), chunks |-> chunks]
    ELSE LET i == Min(Matches(chunks, t))
         IN  [res |-> Ok(chunks[i]), chunks |-> Without(chunks, i)]

\* Png::chunk_by_type: Some(first match) or None
chunk_by_type(chunks, t) ==
    IF Matches(chunks, t) = {} THEN Err(ErrNotFound)
    ELSE Ok(chunks[Min(Matches(chunks, t))])

RECURSIVE Png_as_bytes_from(_, _)
Png_as_bytes_from(chunks, i) ==
    IF i > Len(chunks) THEN <<>>
    ELSE as_bytes(chunks[i]) \o Png_as_bytes_from(chunks, i + 1)

\* Png::as_bytes: the signature, then every chunk's encoding in order
Png_as_bytes(chunks) == STANDARD_HEADER \o Png_as_bytes_from(chunks, 1)

(***************************************************************************)
(* Spec: main.rs. One command at a time runs against the file at its path; *)
(* the next command starts when the process of the last one has ended.     *)
(***************************************************************************)
MaxChunks == 2      \* encode is started on files shorter than MaxChunks chunks

\* "RuSt", "ruSt", "Rust", "Ru1t", "RuS"
TypeStrs ==
    {<<82, 117, 83, 116>>, <<114, 117, 83, 116>>, <<82, 117, 115, 116>>,
     <<82, 117, 49, 116>>, <<82, 117, 83>>}
\* "" and "h"
Messages == {<<>>, <<104>>}

Command(op, t, m) == [op |-> op, chunk_type |-> t, message |-> m]
Commands ==
    {Command("encode", t, m) : t \in TypeStrs, m \in Messages}
        \cup {Command(op, t, <<>>) : op \in {"remove", "decode"}, t \in TypeStrs}
        \cup {Command("print", <<>>, <<>>)}

RuSt(d) == Chunk_new(<<82, 117, 83, 116>>, d)
ruSt(d) == Chunk_new(<<114, 117, 83, 116>>, d)

\* the files the first command finds: no chunk; three chunks, two of a type;
\* a chunk that is not UTF-8; a wrong signature; a wrong CRC
InitialFiles ==
    {Png_as_bytes(<<>>),
     Png_as_bytes(<<RuSt(<<104>>), ruSt(<<>>), RuSt(<<>>)>>),
     Png_as_bytes(<<RuSt(<<255>>)>>),
     <<0, 80, 78, 71, 13, 10, 26, 10>>,
     STANDARD_HEADER \o <<0, 0, 0, 0, 82, 117, 83, 116, 0, 0, 0, 0>>}

Init ==
    /\ file \in InitialFiles
    /\ pc = "idle"
    /\ cmd = Command("print", <<>>, <<>>)
    /\ orig = file
    /\ buf = <<>> /\ png = <<>> /\ before = <<>> /\ obuf = <<>>
    /\ out = Ok(<<>>)
    /\ steps = <<>> /\ stdout = <<>>
    /\ NoTypeState /\ NoChunkState /\ NoLenState

Ended == pc \in {"idle", "done", "failed", "panicked"}

AfterParse(op) ==
    CASE op = "encode" -> "build"
      [] op = "remove" -> "remove"
      [] op = "decode" -> "find"
      [] op = "print" -> "print"

\* a failed step: `?` returns the error from main, a panic aborts the process
Fail(r) ==
    /\ pc' = IF r.kind = "Panic" THEN "panicked" ELSE "failed"
    /\ out' = r

\* the process starts: Cli::parse()
Start ==
    /\ Ended
    /\ \E c \in Commands :
          /\ c.op = "encode" => Len(file) < 8 + 12 * MaxChunks
          /\ cmd' = c
    /\ pc' = "read"
    /\ orig' = file
    /\ buf' = <<>> /\ png' = <<>> /\ before' = <<>> /\ obuf' = <<>>
    /\ out' = Ok(<<>>)
    /\ steps' = <<>> /\ stdout' = <<>>
    /\ UNCHANGED <<file, typeVars, chunkVars, lenVars>>

\* read_bytes_from_file(&path)?
ReadFile ==
    /\ pc = "read"
    /\ buf' = file
    /\ steps' = Append(steps, "read")
    /\ pc' = "parse"
    /\ UNCHANGED <<file, cmd, orig, png, before, obuf, out, stdout,
                   typeVars, chunkVars, lenVars>>

ParsePng_CreatesFirst ==
    /\ pc = "parse"
    /\ LET r == Png_try_from(buf)
       IN  IF r.kind = "Ok"
           THEN /\ png' = r.val
                /\ steps' = Append(steps, "parse")
                /\ pc' = AfterParse(cmd.op)
                /\ UNCHANGED <<out, file>>
           ELSE /\ Fail(r)
                /\ file' = IF cmd.op \in {"encode", "remove"} THEN <<>> ELSE file
                /\ UNCHANGED <<png, steps>>
    /\ UNCHANGED <<cmd, orig, buf, before, obuf, stdout,
                   typeVars, chunkVars, lenVars>>

\* Png::try_from(bytes.as_slice())?
ParsePng ==
    /\ pc = "parse"
    /\ LET r == Png_try_from(buf)
       IN  IF r.kind = "Ok"
           THEN /\ png' = r.val
                /\ steps' = Append(steps, "parse")
                /\ pc' = AfterParse(cmd.op)
                /\ UNCHANGED out
           ELSE /\ Fail(r)
                /\ UNCHANGED <<png, steps>>
    /\ UNCHANGED <<file, cmd, orig, buf, before, obuf, stdout,
                   typeVars, chunkVars, lenVars>>

\* Chunk::new(ChunkType::from_str(&chunk_type)?, message.into_bytes())
BuildChunk ==
    /\ pc = "build"
    /\ LET r == from_str(cmd.chunk_type)
       IN  IF r.kind = "Ok"
           THEN /\ out' = Ok(Chunk_new(r.val, cmd.message))
                /\ steps' = Append(steps, "build")
                /\ pc' = "append"
           ELSE /\ Fail(r)
                /\ UNCHANGED steps
    /\ UNCHANGED <<file, cmd, orig, buf, png, before, obuf, stdout,
                   typeVars, chunkVars, lenVars>>

\* png.append_chunk(chunk)
AppendChunk ==
    /\ pc = "append"
    /\ before' = png
    /\ png' = append_chunk(png, out.val)
    /\ steps' = Append(steps, "append")
    /\ pc' = "serialize"
    /\ UNCHANGED <<file, cmd, orig, buf, obuf, out, stdout,
                   typeVars, chunkVars, lenVars>>

\* png.remove_chunk(&chunk_type)?
RemoveChunk ==
    /\ pc = "remove"
    /\ LET r == remove_chunk(png, cmd.chunk_type)
       IN  /\ before' = png
           /\ png' = r.chunks
           /\ IF r.res.kind = "Ok"
              THEN /\ out' = r.res
                   /\ steps' = Append(steps, "remove")
                   /\ pc' = "serialize"
              ELSE /\ Fail(r.res)
                   /\ UNCHANGED steps
    /\ UNCHANGED <<file, cmd, orig, buf, obuf, stdout,
                   typeVars, chunkVars, lenVars>>

\* &png.as_bytes(), the argument of write_bytes_to_file
Serialize ==
    /\ pc = "serialize"
    /\ obuf' = Png_as_bytes(png)
    /\ steps' = Append(steps, "serialize")
    /\ pc' = "create"
    /\ UNCHANGED <<file, cmd, orig, buf, png, before, out, stdout,
                   typeVars, chunkVars, lenVars>>

\* write_bytes_to_file: File::create(path)? truncates the file, or fails
CreateFile ==
    /\ pc = "create"
    /\ \/ /\ file' = <<>>
          /\ steps' = Append(steps, "create")
          /\ pc' = "write_all"
          /\ UNCHANGED out
       \/ /\ Fail(Err("File::create"))
          /\ UNCHANGED <<file, steps>>
    /\ UNCHANGED <<cmd, orig, buf, png, before, obuf, stdout,
                   typeVars, chunkVars, lenVars>>

\* write_bytes_to_file: file.write_all(bytes) writes them all, or fails after
\* none, half or all but one of them
WriteAll ==
    /\ pc = "write_all"
    /\ \/ /\ file' = obuf
          /\ steps' = Append(steps, "write_all")
          /\ pc' = "done"
          /\ UNCHANGED out
       \/ /\ \E k \in {0, Len(obuf) \div 2, Len(obuf) - 1} :
                file' = SubSeq(obuf, 1, k)
          /\ Fail(Err("Error when writing to"))
          /\ UNCHANGED steps
    /\ UNCHANGED <<cmd, orig, buf, png, before, obuf, stdout,
                   typeVars, chunkVars, lenVars>>

NoSecret == [kind |-> "none found", body |-> <<>>]

\* Commands::Decode: png.chunk_by_type(&chunk_type), String::from_utf8, println!
FindChunk ==
    /\ pc = "find"
    /\ LET r == chunk_by_type(png, cmd.chunk_type)
       IN  IF r.kind # "Ok"
           THEN /\ stdout' = <<NoSecret>>
                /\ steps' = Append(steps, "find")
                /\ pc' = "done"
                /\ UNCHANGED out
           ELSE IF utf8_valid(r.val.data)
           THEN /\ stdout' = <<[kind |-> "secret", body |-> r.val.data]>>
                /\ steps' = Append(steps, "find")
                /\ pc' = "done"
                /\ UNCHANGED out
           ELSE /\ Fail(Err("Error converting chunk data to UTF8!"))
                /\ UNCHANGED <<stdout, steps>>
    /\ UNCHANGED <<file, cmd, orig, buf, png, before, obuf,
                   typeVars, chunkVars, lenVars>>

\* Commands::Print: println!("{}", png)
PrintPng ==
    /\ pc = "print"
    /\ stdout' = <<[kind |-> "png", body |-> [i \in 1..Len(png) |-> TypeText(png[i])]]>>
    /\ steps' = Append(steps, "print")
    /\ pc' = "done"
    /\ UNCHANGED <<file, cmd, orig, buf, png, before, obuf, out,
                   typeVars, chunkVars, lenVars>>

Next ==
    \/ Start \/ ReadFile \/ ParsePng \/ BuildChunk \/ AppendChunk
    \/ RemoveChunk \/ Serialize \/ CreateFile \/ WriteAll \/ FindChunk
    \/ PrintPng

Spec == Init /\ [][Next]_vars

\* C4: the chunk the encode command built is appended to the parsed
\* container and the container is serialized; parsing those bytes again
\* succeeds and gives the original chunks followed by that chunk.
C4_AppendRoundTrip ==
    (cmd.op = "encode" /\ pc = "create") =>
        LET r == Png_try_from(obuf)
        IN  r.kind = "Ok" /\ r.val = Append(before, out.val)

\* remove_chunk has returned in the remove command
RemoveReturned ==
    /\ cmd.op = "remove"
    /\ \/ pc = "serialize"
       \/ pc = "failed" /\ steps = <<"read", "parse">>

SameType(c, t) == bytes(c.chunk_type) = t

\* C5: with a chunk of type t present, remove_by_type(t) returns the first
\* one and leaves the sequence with exactly that element deleted, the others
\* in their order; with none present it returns "chunk not found" and leaves
\* the sequence as it was.
C5_RemoveFirst ==
    RemoveReturned =>
        LET t == cmd.chunk_type
            idx == {i \in 1..Len(before) : SameType(before[i], t)}
        IN  IF idx = {}
            THEN /\ pc = "failed"
                 /\ out.kind = "Err" /\ out.err = ErrNotFound
                 /\ png = before
            ELSE LET first == CHOOSE i \in idx : \A j \in idx : i <= j
                 IN  /\ pc = "serialize"
                     /\ out.kind = "Ok" /\ out.val = before[first]
                     /\ Len(png) = Len(before) - 1
                     /\ \A j \in 1..Len(png) :
                           png[j] = IF j < first THEN before[j] ELSE before[j + 1]

\* the first of two chunks of the type was removed and the second is kept
C5_Witness ==
    /\ RemoveReturned /\ pc = "serialize"
    /\ Cardinality({i \in 1..Len(before) : SameType(before[i], cmd.chunk_type)}) = 2
    /\ \E j \in 1..Len(png) : SameType(png[j], cmd.chunk_type)
    /\ out.val = before[1] /\ out.val # before[3]

\* the steps that come before the file is written
CoreSteps(op) ==
    IF op = "encode" THEN <<"read", "parse", "build", "append", "serialize">>
    ELSE <<"read", "parse", "remove", "serialize">>

CoreErrors ==
    {ErrSignature, ErrShortHeader, ErrInvalidBytes, ErrInvalidType, ErrCrc,
     PanicSlice, ErrTryFromSlice, ErrNotFound}

\* C6: the file differs from what it was when the command started only in an
\* encode or remove command in which reading, parsing, building the chunk,
\* the mutation and the serialization have all succeeded; when one of those
\* fails the file is what it was.
C6_WriteLast ==
    /\ file # orig =>
          /\ cmd.op \in {"encode", "remove"}
          /\ Len(steps) >= Len(CoreSteps(cmd.op))
          /\ SubSeq(steps, 1, Len(CoreSteps(cmd.op))) = CoreSteps(cmd.op)
    /\ (pc \in {"failed", "panicked"} /\ out.err \in CoreErrors) => file = orig

\* a remove command has failed on a file that parses, and the file is intact
C6_Witness ==
    /\ cmd.op = "remove" /\ pc = "failed" /\ out.err = ErrNotFound
    /\ Len(png) > 0
    /\ file = orig /\ file = buf

====
